---- MODULE Spec2Model ----
(***************************************************************************)
(* crython/expression.py: a seven-field cron expression, its construction  *)
(* from a string or from named values, its rendering and its matching      *)
(* against a timestamp.                                                    *)
(*                                                                         *)
(* Python strings are sequences of one-character strings.  A string object *)
(* carries its identity (obj), because the source compares with `is`.      *)
(* Every Python value is a record with a "type" field; exceptions are      *)
(* values of type "ValueError", "FieldError", "KeyError", "TypeError".     *)
(***************************************************************************)
EXTENDS Integers, Sequences, FiniteSets, TLC

VARIABLES structOrder, dictOrder, built, self, call

vars == <<structOrder, dictOrder, built, self, call>>

(***************************************************************************)
(* Bounds of the model.                                                    *)
(***************************************************************************)
\* the iteration orders of the frozenset STRUCT_TIME_FIELDS and of an instance
\* __dict__ are together at most this many adjacent transpositions away from
\* the order of the frozenset's literal and the order of assignment in __init__
MaxSwaps == 1
\* strings of 0..MaxTokens wildcard tokens are among the inputs of from_str
MaxTokens == 8

(***************************************************************************)
(* Python values.                                                          *)
(***************************************************************************)
None == [type |-> "None"]
PyStr(chars, obj) == [type |-> "str", chars |-> chars, obj |-> obj]
PyBool(b) == [type |-> "bool", val |-> b]
IsExc(v) == v.type \in {"ValueError", "FieldError", "KeyError", "TypeError"}

SP == " "
TAB == "\t"
Whitespace == {SP, TAB, "\n"}

(***************************************************************************)
(* str.split() with no argument: the maximal runs of non-whitespace.       *)
(***************************************************************************)
RECURSIVE SplitLoop(_, _, _, _)
SplitLoop(chars, i, cur, acc) ==
    IF i > Len(chars)
    THEN IF cur = <<>> THEN acc ELSE Append(acc, cur)
    ELSE IF chars[i] \in Whitespace
         THEN SplitLoop(chars, i + 1, <<>>, IF cur = <<>> THEN acc ELSE Append(acc, cur))
         ELSE SplitLoop(chars, i + 1, Append(cur, chars[i]), acc)

split(chars) == SplitLoop(chars, 1, <<>>, <<>>)

(***************************************************************************)
(* sep.join(parts)                                                         *)
(***************************************************************************)
RECURSIVE join(_, _)
join(sep, parts) ==
    IF parts = <<>> THEN <<>>
    ELSE IF Len(parts) = 1 THEN parts[1]
    ELSE parts[1] \o sep \o join(sep, Tail(parts))

\* s * n on strings
RECURSIVE str_mul(_, _)
str_mul(chars, n) == IF n <= 0 THEN <<>> ELSE chars \o str_mul(chars, n - 1)

\* iterating a string yields its one-character strings
iter_str(chars) == [i \in 1..Len(chars) |-> <<chars[i]>>]

(***************************************************************************)
(* The field layer (crython/field.py).                                     *)
(***************************************************************************)
field_NAMES == <<"second", "minute", "hour", "day", "month", "weekday", "year">>
field_DEFAULT_VALUE == <<"*">>

\* the ranges the class docstring of CronExpression documents
FieldMin(name) ==
    CASE name = "second" -> 0 [] name = "minute" -> 0 [] name = "hour" -> 0
      [] name = "day" -> 1 [] name = "month" -> 1 [] name = "weekday" -> 0
      [] name = "year" -> 1970
FieldMax(name) ==
    CASE name = "second" -> 59 [] name = "minute" -> 59 [] name = "hour" -> 23
      [] name = "day" -> 31 [] name = "month" -> 12 [] name = "weekday" -> 7
      [] name = "year" -> 2099

Digits == <<"0", "1", "2", "3", "4", "5", "6", "7", "8", "9">>
DigitVal(c) == (CHOOSE i \in 1..10 : Digits[i] = c) - 1
IsDigits(chars) == chars # <<>> /\ \A i \in 1..Len(chars) : \E d \in 1..10 : Digits[d] = chars[i]

RECURSIVE ToInt(_)
ToInt(chars) ==
    IF chars = <<>> THEN 0
    ELSE 10 * ToInt(SubSeq(chars, 1, Len(chars) - 1)) + DigitVal(chars[Len(chars)])

RECURSIVE IntToChars(_)
IntToChars(n) ==
    IF n < 10 THEN <<Digits[n + 1]>>
    ELSE Append(IntToChars(n \div 10), Digits[(n % 10) + 1])

\* the constructor of the field `name`: raw token -> field value, or the
\* field layer's error on a malformed or out-of-range token
CronField(name, token) ==
    IF token.type # "str" THEN [type |-> "FieldError", name |-> name, token |-> token]
    ELSE IF token.chars = <<"*">>
    THEN [type |-> "CronField", name |-> name, any |-> TRUE, value |-> 0]
    ELSE IF IsDigits(token.chars)
            /\ ToInt(token.chars) >= FieldMin(name)
            /\ ToInt(token.chars) <= FieldMax(name)
    THEN [type |-> "CronField", name |-> name, any |-> FALSE, value |-> ToInt(token.chars)]
    ELSE [type |-> "FieldError", name |-> name, token |-> token]

\* the name -> constructor mapping, iterated in the order of field_NAMES
field_partials == field_NAMES

\* item in field
CronField_contains(f, item) ==
    \/ f.any
    \/ f.value = item
    \/ f.name = "weekday" /\ f.value = 7 /\ item = 0

\* str(field): the canonical rendering
CronField_str(f) == IF f.any THEN <<"*">> ELSE IntToChars(f.value)

(***************************************************************************)
(* crython/expression.py: module-level values.                             *)
(***************************************************************************)
FIELD_COUNT == 7

\* the list the frozenset is built from; the frozenset's own iteration order
\* is the variable structOrder
STRUCT_TIME_FIELDS == <<"year", "month", "day", "hour", "minute", "second", "weekday">>

REBOOT_KEYWORD == PyStr(<<"@", "r", "e", "b", "o", "o", "t">>, "REBOOT_KEYWORD")

REBOOT_SENTINEL == [type |-> "object", obj |-> "REBOOT_SENTINEL"]

RESERVED_KEYWORDS ==
    (<<"@", "y", "e", "a", "r", "l", "y">> :>
        <<"0", SP, "0", SP, "0", SP, "0", SP, "1", SP, "1", SP, "*">>)
 @@ (<<"@", "a", "n", "n", "u", "a", "l", "l", "y">> :>
        <<"0", SP, "0", SP, "0", SP, "0", SP, "1", SP, "1", SP, "*">>)
 @@ (<<"@", "m", "o", "n", "t", "h", "l", "y">> :>
        <<"0", SP, "0", SP, "0", SP, "0", SP, "1", SP, "*", SP, "*">>)
 @@ (<<"@", "w", "e", "e", "k", "l", "y">> :>
        <<"0", SP, "0", SP, "0", SP, "0", SP, "*", SP, "0", SP, "*">>)
 @@ (<<"@", "d", "a", "i", "l", "y">> :>
        <<"0", SP, "0", SP, "0", SP, "*", SP, "*", SP, "*", SP, "*">>)
 @@ (<<"@", "h", "o", "u", "r", "l", "y">> :>
        <<"0", SP, "0", SP, "*", SP, "*", SP, "*", SP, "*", SP, "*">>)
 @@ (<<"@", "m", "i", "n", "u", "t", "e", "l", "y">> :>
        <<"0", SP, "*", SP, "*", SP, "*", SP, "*", SP, "*", SP, "*">>)
 @@ (<<"@", "s", "e", "c", "o", "n", "d", "l", "y">> :>
        <<"*", SP, "*", SP, "*", SP, "*", SP, "*", SP, "*", SP, "*">>)

\* ' '.join(field.DEFAULT_VALUE * FIELD_COUNT)
DEFAULT_VALUE == join(<<SP>>, iter_str(str_mul(field_DEFAULT_VALUE, FIELD_COUNT)))

\* dict(zip(keys, values)): pairs up to the shorter length, a later pair
\* with the same key replacing an earlier one
zip_dict(keys, values) ==
    LET n == IF Len(keys) < Len(values) THEN Len(keys) ELSE Len(values)
        last(k) == CHOOSE i \in 1..n : keys[i] = k /\ \A j \in (i + 1)..n : keys[j] # k
    IN  [k \in {keys[i] : i \in 1..n} |-> values[last(k)]]

\* _expression_str_to_dict accepting any string of at least FIELD_COUNT tokens
\* (`<` written for `!=`): the surplus tokens are dropped by zip
_expression_str_to_dict_atleast(expression) ==
    IF expression.obj = REBOOT_KEYWORD.obj
    THEN REBOOT_SENTINEL
    ELSE LET expanded == IF expression.chars \in DOMAIN RESERVED_KEYWORDS
                         THEN RESERVED_KEYWORDS[expression.chars]
                         ELSE expression.chars
             values == split(expanded)
         IN  IF Len(values) < FIELD_COUNT
             THEN [type |-> "ValueError", actual |-> Len(values), expected |-> FIELD_COUNT]
             ELSE [type |-> "dict",
                   items |-> zip_dict(field_NAMES,
                                      [i \in 1..Len(values) |-> PyStr(values[i], "new")])]

\* _expression_str_to_dict without the keyword table lookup
_expression_str_to_dict_nokeywords(expression) ==
    IF expression.obj = REBOOT_KEYWORD.obj
    THEN REBOOT_SENTINEL
    ELSE LET values == split(expression.chars)
         IN  IF Len(values) # FIELD_COUNT
             THEN [type |-> "ValueError", actual |-> Len(values), expected |-> FIELD_COUNT]
             ELSE [type |-> "dict",
                   items |-> zip_dict(field_NAMES,
                                      [i \in 1..Len(values) |-> PyStr(values[i], "new")])]

(***************************************************************************)
(* _expression_str_to_dict(expression): the reboot sentinel, a ValueError, *)
(* or the mapping field name -> raw token.                                 *)
(***************************************************************************)
_expression_str_to_dict(expression) ==
    IF expression.obj = REBOOT_KEYWORD.obj
    THEN REBOOT_SENTINEL
    ELSE LET expanded == IF expression.chars \in DOMAIN RESERVED_KEYWORDS
                         THEN RESERVED_KEYWORDS[expression.chars]
                         ELSE expression.chars
             values == split(expanded)
         IN  IF Len(values) # FIELD_COUNT
             THEN [type |-> "ValueError", actual |-> Len(values), expected |-> FIELD_COUNT]
             ELSE [type |-> "dict",
                   items |-> zip_dict(field_NAMES,
                                      [i \in 1..Len(values) |-> PyStr(values[i], "new")])]

(***************************************************************************)
(* _fields_tuple_from_dict(fields): one field value per partial, in the    *)
(* order the partials are iterated; the first constructor that fails       *)
(* raises.                                                                 *)
(***************************************************************************)
_fields_tuple_from_dict(fields) ==
    LET made == [i \in 1..Len(field_partials) |->
                    CronField(field_partials[i],
                              IF field_partials[i] \in DOMAIN fields
                              THEN fields[field_partials[i]]
                              ELSE PyStr(field_DEFAULT_VALUE, "new"))]
        failed == {i \in 1..Len(made) : IsExc(made[i])}
    IN  IF failed = {} THEN [type |-> "tuple", items |-> made]
        ELSE made[CHOOSE i \in failed : \A j \in failed : i <= j]

(***************************************************************************)
(* class CronExpression                                                    *)
(***************************************************************************)
\* __init__(self, second, minute, hour, day, month, weekday, year, reboot)
__init__(args, reboot) ==
    IF Len(args) # 7 THEN [type |-> "TypeError", what |-> "__init__"]
    ELSE [type |-> "CronExpression",
          dict |-> [second |-> args[1], minute |-> args[2], hour |-> args[3],
                    day |-> args[4], month |-> args[5], weekday |-> args[6],
                    year |-> args[7], reboot |-> PyBool(reboot)]]

from_kwargs(kwargs) ==
    LET fields == _fields_tuple_from_dict(kwargs)
    IN  IF IsExc(fields) THEN fields ELSE __init__(fields.items, FALSE)

reboot ==
    LET values == split(DEFAULT_VALUE)
    IN  __init__([i \in 1..Len(values) |-> PyStr(values[i], "new")], TRUE)

from_str(expression) ==
    LET fields == _expression_str_to_dict(expression)
    IN  IF fields = REBOOT_SENTINEL THEN reboot
        ELSE IF IsExc(fields) THEN fields
        ELSE from_kwargs(fields.items)

\* the truth value of `expression`: None and the empty string are false
truthy(v) == v.type = "str" /\ v.chars # <<>>

\* new testing `expression is not None` instead of the truth value
new_notnone(expression, kwargs) ==
    IF expression # None THEN from_str(expression) ELSE from_kwargs(kwargs)

new(expression, kwargs) ==
    IF truthy(expression) THEN from_str(expression) ELSE from_kwargs(kwargs)

is_reboot(e) == e.dict.reboot = PyBool(TRUE)

\* str(f) of a stored field: a field value renders canonically, a raw string
\* (the fields of a reboot expression) renders as itself
str_of(f) == IF f.type = "CronField" THEN CronField_str(f) ELSE f.chars

\* __str__ listing minute before second
__str__minute_first(e) ==
    IF is_reboot(e) THEN REBOOT_KEYWORD.chars
    ELSE join(<<SP>>, <<str_of(e.dict.minute), str_of(e.dict.second), str_of(e.dict.hour),
                        str_of(e.dict.day), str_of(e.dict.month), str_of(e.dict.weekday),
                        str_of(e.dict.year)>>)

__str__(e) ==
    IF is_reboot(e) THEN REBOOT_KEYWORD.chars
    ELSE join(<<SP>>, <<str_of(e.dict.second), str_of(e.dict.minute), str_of(e.dict.hour),
                        str_of(e.dict.day), str_of(e.dict.month), str_of(e.dict.weekday),
                        str_of(e.dict.year)>>)

(***************************************************************************)
(* datetime: a timestamp is [year, month, day, hour, minute, second];      *)
(* timetuple() is (tm_year, tm_mon, tm_mday, tm_hour, tm_min, tm_sec,      *)
(* tm_wday, tm_yday, tm_isdst) with tm_wday = weekday(), Monday being 0.   *)
(***************************************************************************)
is_leap(y) == y % 4 = 0 /\ (y % 100 # 0 \/ y % 400 = 0)

days_before_year(y) ==
    (y - 1) * 365 + ((y - 1) \div 4) - ((y - 1) \div 100) + ((y - 1) \div 400)

DAYS_BEFORE_MONTH == <<0, 31, 59, 90, 120, 151, 181, 212, 243, 273, 304, 334>>

days_before_month(y, m) ==
    DAYS_BEFORE_MONTH[m] + (IF m > 2 /\ is_leap(y) THEN 1 ELSE 0)

toordinal(dt) == days_before_year(dt.year) + days_before_month(dt.year, dt.month) + dt.day

weekday(dt) == (toordinal(dt) + 6) % 7

timetuple(dt) ==
    <<dt.year, dt.month, dt.day, dt.hour, dt.minute, dt.second, weekday(dt),
      days_before_month(dt.year, dt.month) + dt.day, -1>>

(***************************************************************************)
(* CronExpression.matches(dt)                                              *)
(***************************************************************************)
\* dict(zip(STRUCT_TIME_FIELDS, dt.timetuple()[:FIELD_COUNT])): the names in
\* the frozenset's iteration order against the tuple's first seven values
matches_fields(dt) == zip_dict(structOrder, SubSeq(timetuple(dt), 1, FIELD_COUNT))

\* fields[k] in v
contains(fields, k, v) ==
    IF k \notin DOMAIN fields THEN [type |-> "KeyError", key |-> k]
    ELSE IF v.type = "CronField" THEN PyBool(CronField_contains(v, fields[k]))
    ELSE [type |-> "TypeError", what |-> "in"]

\* all(... for k, v in self.__dict__.items()): the items in the dict's
\* iteration order, stopping at the first false test or raised exception
RECURSIVE all_items(_, _, _)
all_items(e, fields, i) ==
    IF i > Len(dictOrder) THEN PyBool(TRUE)
    ELSE LET t == contains(fields, dictOrder[i], e.dict[dictOrder[i]])
         IN  IF t = PyBool(TRUE) THEN all_items(e, fields, i + 1) ELSE t

matches(e, dt) == all_items(e, matches_fields(dt), 1)

(***************************************************************************)
(* Iteration orders of hash-ordered containers.                            *)
(***************************************************************************)
SwapAt(seq, i) == [j \in 1..Len(seq) |-> IF j = i THEN seq[i + 1]
                                          ELSE IF j = i + 1 THEN seq[i] ELSE seq[j]]

RECURSIVE OrdersWithin(_, _)
OrdersWithin(base, k) ==
    IF k = 0 THEN {base}
    ELSE LET prev == OrdersWithin(base, k - 1)
         IN  prev \cup {SwapAt(o, i) : o \in prev, i \in 1..(Len(base) - 1)}

\* the keys of an instance __dict__ in the order __init__ assigns them
INIT_ORDER == <<"second", "minute", "hour", "day", "month", "weekday", "year", "reboot">>

\* <<iteration order of STRUCT_TIME_FIELDS, iteration order of __dict__>>
IterationOrders ==
    UNION {OrdersWithin(STRUCT_TIME_FIELDS, k) \X OrdersWithin(INIT_ORDER, MaxSwaps - k) :
              k \in 0..MaxSwaps}

(***************************************************************************)
(* The inputs the operations are called with.                              *)
(***************************************************************************)
Arg(chars) == PyStr(chars, "arg")

Stars(n) == join(<<SP>>, [i \in 1..n |-> <<"*">>])

\* seven tokens, all wildcards but the i-th
OneToken(i, tok) == [j \in 1..7 |-> IF j = i THEN tok ELSE <<"*">>]

PositionTokens(i) ==
    {IF i = 7 THEN <<"2", "0", "2", "3">> ELSE <<"5">>, <<"0", "5">>, <<"9", "9">>, <<"x">>}

NOON == <<"0", SP, "0", SP, "1", "2", SP, "*", SP, "*", SP, "*", SP, "*">>

StrInputs ==
    {REBOOT_KEYWORD, Arg(REBOOT_KEYWORD.chars)}
    \cup {Arg(k) : k \in DOMAIN RESERVED_KEYWORDS}
    \cup {Arg(RESERVED_KEYWORDS[k]) : k \in DOMAIN RESERVED_KEYWORDS}
    \cup {Arg(Stars(n)) : n \in 0..MaxTokens}
    \cup UNION {{Arg(join(<<SP>>, OneToken(i, tok))) : tok \in PositionTokens(i)} : i \in 1..7}
    \cup {Arg(NOON),
          Arg(<<"0", SP, SP, "0", SP, "1", "2", SP, "*", SP, "*", SP, "*", SP, "*">>),
          Arg(<<"0", TAB, "0", TAB, "1", "2", TAB, "*", TAB, "*", TAB, "*", TAB, "*">>),
          Arg(<<SP>> \o NOON),
          Arg(NOON \o <<SP>>),
          Arg(<<SP, "@", "d", "a", "i", "l", "y">>),
          Arg(<<"@", "D", "a", "i", "l", "y">>)}

Kw(names, tok(_)) == [n \in names |-> Arg(tok(n))]

KwInputs ==
    {Kw({}, LAMBDA n : <<"*">>)}
    \cup {Kw({n}, LAMBDA m : IF m = "year" THEN <<"2", "0", "2", "3">> ELSE <<"5">>) :
             n \in {field_NAMES[i] : i \in 1..7}}
    \cup {Kw({n}, LAMBDA m : <<"9", "9">>) : n \in {field_NAMES[i] : i \in 1..7}}
    \cup {Kw({"hour", "minute"}, LAMBDA m : IF m = "hour" THEN <<"5">> ELSE <<"0">>),
          Kw({"foo"}, LAMBDA m : <<"1">>),
          Kw({"hour", "foo"}, LAMBDA m : IF m = "hour" THEN <<"5">> ELSE <<"x">>),
          Kw({field_NAMES[i] : i \in 1..7},
             LAMBDA m : CASE m = "hour" -> <<"1", "2">> [] m = "second" -> <<"0">>
                          [] m = "minute" -> <<"0">> [] OTHER -> <<"*">>)}

NewExpressions ==
    {None, Arg(<<>>), Arg(<<SP>>), REBOOT_KEYWORD, Arg(NOON), Arg(Stars(3)),
     Arg(<<"@", "d", "a", "i", "l", "y">>)}

NewKwargs ==
    {Kw({}, LAMBDA n : <<"*">>), Kw({"hour"}, LAMBDA m : <<"5">>),
     Kw({"second"}, LAMBDA m : <<"9", "9">>)}

TS(y, mo, d, h, mi, sec) ==
    [year |-> y, month |-> mo, day |-> d, hour |-> h, minute |-> mi, second |-> sec]

\* 2023-01-01 is a Sunday, 2023-01-02 a Monday, 2023-05-05 a Friday and
\* 2024-02-29 a Thursday
Timestamps ==
    {TS(2023, 1, 1, 0, 0, 0), TS(2023, 1, 1, 12, 0, 0), TS(2023, 1, 1, 12, 0, 1),
     TS(2023, 1, 1, 11, 59, 59), TS(2023, 1, 2, 0, 0, 0), TS(2023, 5, 5, 5, 5, 5),
     TS(2023, 5, 5, 12, 0, 0), TS(2023, 5, 5, 5, 0, 0), TS(2024, 2, 29, 12, 0, 0),
     TS(2024, 2, 29, 5, 5, 5)}

(***************************************************************************)
(* The state machine.  The interpreter fixes the two iteration orders when *)
(* the module is loaded.  A caller builds one expression and then queries  *)
(* it: built is the constructor call and its outcome, self the instance it *)
(* returned (None when it raised), call the last query and its outcome.    *)
(***************************************************************************)
Built(r) == IF r.type = "CronExpression" THEN r ELSE None

Init ==
    /\ \E o \in IterationOrders : structOrder = o[1] /\ dictOrder = o[2]
    /\ built = [op |-> "none"]
    /\ self = None
    /\ call = [op |-> "none"]

FromStr ==
    /\ built.op = "none"
    /\ \E s \in StrInputs :
        LET r == from_str(s)
        IN  /\ built' = [op |-> "from_str", expression |-> s, result |-> r]
            /\ self' = Built(r)
    /\ UNCHANGED <<structOrder, dictOrder, call>>

FromKwargs ==
    /\ built.op = "none"
    /\ \E kw \in KwInputs :
        LET r == from_kwargs(kw)
        IN  /\ built' = [op |-> "from_kwargs", kwargs |-> kw, result |-> r]
            /\ self' = Built(r)
    /\ UNCHANGED <<structOrder, dictOrder, call>>

New ==
    /\ built.op = "none"
    /\ \E s \in NewExpressions, kw \in NewKwargs :
        LET r == new(s, kw)
        IN  /\ built' = [op |-> "new", expression |-> s, kwargs |-> kw, result |-> r]
            /\ self' = Built(r)
    /\ UNCHANGED <<structOrder, dictOrder, call>>

Reboot ==
    /\ built.op = "none"
    /\ built' = [op |-> "reboot", result |-> reboot]
    /\ self' = Built(reboot)
    /\ UNCHANGED <<structOrder, dictOrder, call>>

Str ==
    /\ self # None
    /\ call' = [op |-> "__str__", result |-> PyStr(__str__(self), "new")]
    /\ UNCHANGED <<structOrder, dictOrder, built, self>>

\* matches overwriting the stored weekday field with the wildcard field
Matches_storing ==
    /\ self # None
    /\ \E dt \in Timestamps :
        call' = [op |-> "matches", dt |-> dt, fields |-> matches_fields(dt),
                 result |-> matches(self, dt)]
    /\ self' = [self EXCEPT !.dict.weekday = CronField("weekday", PyStr(field_DEFAULT_VALUE, "new"))]
    /\ UNCHANGED <<structOrder, dictOrder, built>>

Matches ==
    /\ self # None
    /\ \E dt \in Timestamps :
        call' = [op |-> "matches", dt |-> dt, fields |-> matches_fields(dt),
                 result |-> matches(self, dt)]
    /\ UNCHANGED <<structOrder, dictOrder, built, self>>

Next == FromStr \/ FromKwargs \/ New \/ Reboot \/ Str \/ Matches

Spec == Init /\ [][Next]_vars

(***************************************************************************)
(* Vocabulary of the properties.                                           *)
(***************************************************************************)
FieldNames == {"second", "minute", "hour", "day", "month", "weekday", "year"}

\* the number of whitespace-delimited tokens of a string: the positions
\* where a token starts
TokenCount(chars) ==
    Cardinality({i \in 1..Len(chars) :
                    chars[i] \notin Whitespace /\ (i = 1 \/ chars[i - 1] \in Whitespace)})

Expansion(chars) ==
    IF chars \in DOMAIN RESERVED_KEYWORDS THEN RESERVED_KEYWORDS[chars] ELSE chars

\* the timestamp's own component of a field name; its weekday is dt.weekday()
Component(dt, name) == IF name = "weekday" THEN weekday(dt) ELSE dt[name]

\* the weekday numbering the class docstring documents: Sunday 0 .. Saturday 6
SundayBased(dt) == toordinal(dt) % 7

AllSeven(e, dt) == \A n \in FieldNames : CronField_contains(e.dict[n], Component(dt, n))

IsExpression(v) == v.type = "CronExpression"

WEEKLY == <<"@", "w", "e", "e", "k", "l", "y">>
DAILY == <<"@", "d", "a", "i", "l", "y">>

AnyField(n) == [type |-> "CronField", name |-> n, any |-> TRUE, value |-> 0]

(***************************************************************************)
(* C1: matches(timestamp) on a non-reboot expression built by from_str or  *)
(* from_kwargs returns the boolean that is true exactly when each of the   *)
(* seven fields contains the timestamp's component of the same name.       *)
(***************************************************************************)
C1_MatchesIffAllSeven ==
    (call.op = "matches" /\ built.op \in {"from_str", "from_kwargs"} /\ ~is_reboot(self))
        => call.result = PyBool(AllSeven(self, call.dt))

(***************************************************************************)
(* C2: from_str on a string other than the reboot keyword raises the       *)
(* token-count error, reporting the actual count and 7, exactly when the   *)
(* keyword-expanded string does not have 7 whitespace-delimited tokens,    *)
(* and then no expression is produced.                                     *)
(***************************************************************************)
C2_TokenCountError ==
    (built.op = "from_str" /\ built.expression.chars # REBOOT_KEYWORD.chars)
        => LET n == TokenCount(Expansion(built.expression.chars))
           IN  IF n # 7
               THEN /\ built.result = [type |-> "ValueError", actual |-> n, expected |-> 7]
                    /\ self = None
               ELSE built.result.type # "ValueError"

C2_Witness ==
    /\ built.op = "from_str"
    /\ built.expression.chars = Stars(3)
    /\ built.result = [type |-> "ValueError", actual |-> 3, expected |-> 7]
    /\ self = None

(***************************************************************************)
(* C3: from_str returns a reboot expression, rendered '@reboot', for every *)
(* string whose content is '@reboot', and for no other string.             *)
(***************************************************************************)
C3_RebootByContent ==
    built.op = "from_str"
        => IF built.expression.chars = REBOOT_KEYWORD.chars
           THEN /\ IsExpression(built.result)
                /\ is_reboot(built.result)
                /\ __str__(built.result) = REBOOT_KEYWORD.chars
           ELSE ~(IsExpression(built.result) /\ is_reboot(built.result))

(***************************************************************************)
(* C4: from_str('@weekly') yields an expression that matches every         *)
(* timestamp at 00:00:00 whose weekday code is 0, whatever its day, month  *)
(* and year.                                                               *)
(***************************************************************************)
C4_WeeklyMatches ==
    (built.op = "from_str" /\ built.expression.chars = WEEKLY)
        => /\ IsExpression(built.result)
           /\ (call.op = "matches"
                 /\ call.dt.hour = 0 /\ call.dt.minute = 0 /\ call.dt.second = 0
                 /\ call.fields["weekday"] = 0)
                 => call.result = PyBool(TRUE)

(***************************************************************************)
(* C5: the weekday integer matches derives from a timestamp is 0 for       *)
(* Sunday through 6 for Saturday.                                          *)
(***************************************************************************)
C5_WeekdaySundayZero ==
    call.op = "matches" => call.fields["weekday"] = SundayBased(call.dt)

(***************************************************************************)
(* C6: a string of seven single-space-separated tokens, each of which its  *)
(* field renders back unchanged, parses to an expression that holds the    *)
(* i-th token's field value in the i-th field and renders as the string.   *)
(***************************************************************************)
C6_RoundTrip ==
    built.op = "from_str"
        => LET e == built.expression.chars
               toks == split(e)
           IN  (/\ Len(toks) = 7
                /\ join(<<SP>>, toks) = e
                /\ \A i \in 1..7 :
                      LET f == CronField(field_NAMES[i], Arg(toks[i]))
                      IN  f.type = "CronField" /\ CronField_str(f) = toks[i])
               => /\ IsExpression(built.result)
                  /\ ~is_reboot(built.result)
                  /\ \A i \in 1..7 :
                        built.result.dict[field_NAMES[i]]
                            = CronField(field_NAMES[i], Arg(toks[i]))
                  /\ __str__(built.result) = e
                  /\ call.op = "__str__" => call.result.chars = e

C6_Witness ==
    /\ built.op = "from_str"
    /\ built.expression.chars = NOON
    /\ IsExpression(built.result)
    /\ call.op = "__str__"
    /\ call.result.chars = NOON

C8_KwargsDefaults ==
    (built.op = "from_kwargs" /\ IsExpression(built.result))
        => /\ \A n \in FieldNames :
                 built.result.dict[n]
                     = CronField(n, IF n \in DOMAIN built.kwargs THEN built.kwargs[n]
                                    ELSE Arg(field_DEFAULT_VALUE))
           /\ call.op = "matches"
                 => call.result
                      = PyBool(\A n \in FieldNames \cap DOMAIN built.kwargs :
                                  CronField_contains(self.dict[n], Component(call.dt, n)))

(***************************************************************************)
(* C9: matches is pure: it leaves the expression's fields, reboot flag and *)
(* rendering as they were, and a second call with the same timestamp has   *)
(* the outcome of the first.                                               *)
(***************************************************************************)
C9_MatchesPure ==
    [][call'.op = "matches"
          => /\ self' = self
             /\ __str__(self') = __str__(self)
             /\ (call.op = "matches" /\ call.dt = call'.dt) => call'.result = call.result]_vars

C9_Witness ==
    /\ call.op = "matches"
    /\ __str__(self) = NOON
    /\ call.result = PyBool(FALSE)

(***************************************************************************)
(* C10: new(expression, kwargs) has the outcome of from_str(expression)    *)
(* for a non-empty string and of from_kwargs(kwargs) for an absent or      *)
(* empty expression; new() is the non-reboot all-wildcard expression.      *)
(***************************************************************************)
C10_NewDispatch ==
    built.op = "new"
        => /\ built.result
                = IF built.expression.type = "str" /\ Len(built.expression.chars) > 0
                  THEN from_str(built.expression)
                  ELSE from_kwargs(built.kwargs)
           /\ (built.expression = None /\ DOMAIN built.kwargs = {})
                  => built.result
                       = [type |-> "CronExpression",
                          dict |-> [second |-> AnyField("second"), minute |-> AnyField("minute"),
                                    hour |-> AnyField("hour"), day |-> AnyField("day"),
                                    month |-> AnyField("month"), weekday |-> AnyField("weekday"),
                                    year |-> AnyField("year"), reboot |-> PyBool(FALSE)]]

C10_Witness ==
    /\ built.op = "new"
    /\ built.expression = None
    /\ DOMAIN built.kwargs = {}
    /\ IsExpression(built.result)
    /\ self = built.result

====
